---- MODULE Spec2Model ----
(***************************************************************************)
(* FoodEase landing page script (src/script.js): the startup sequence and  *)
(* the contact form's field validation and submission workflow, as a state *)
(* machine over the DOM attributes, classes and timers the script touches. *)
(*                                                                         *)
(* Spec runs the script in the document it is written for: a contact form  *)
(* whose inputs each sit in a .form-group of their own, with a submit      *)
(* button.  SpecField and SpecText validate one field of any name,         *)
(* SpecDocument runs the startup sequence in documents that lack some of   *)
(* the elements, SpecSeam puts other promises in the place of the one that *)
(* submitForm awaits, SpecNav opens and closes the navigation menu.        *)
(* Strings are sequences of one-character strings.  Time is in ms.         *)
(***************************************************************************)
EXTENDS Integers, Sequences, FiniteSets, TLC

\* ------------------------------------------------------------------------
\* Configuration & constants
\* ------------------------------------------------------------------------

FORM_VALIDATION_DELAY == 300

SUBMIT_DELAY == 1000

MOBILE_BREAKPOINT == 768

DEBOUNCE_DELAY == 150

\* At most this many submissions are started in one run.
MaxSubmits == 2

\* The script is evaluated at most this many times in one document.
MaxLoads == 2

\* The width of the window the page is opened in: not a mobile one.
PageWidth == MOBILE_BREAKPOINT

RequiredMessage == "This field is required"

SendingLabel == "Sending..."

FailedMessage == "Failed to send message. Please try again."

SuccessMessage == "Thank you! Your message has been sent successfully."

\* The submit button's label in the page's markup.
OriginalLabel == "Send Message"

\* ------------------------------------------------------------------------
\* Characters and strings
\* ------------------------------------------------------------------------

Letters == {"J", "o", "a", "b", "c"}

Digits == {"1", "5"}

LineTerminators == {"\n", "\r"}

\* What \s matches and String.prototype.trim strips.
Whitespace == {" ", "\t"} \cup LineTerminators

Min(a, b) == IF a <= b THEN a ELSE b

RECURSIVE GCD(_, _)
GCD(a, b) == IF b = 0 THEN a ELSE GCD(b, a % b)

Rep(c, n) == [i \in 1..n |-> c]

AllIn(s, S) == \A i \in 1..Len(s) : s[i] \in S

NoneIn(s, S) == \A i \in 1..Len(s) : s[i] \notin S

RECURSIVE TrimStart(_)
TrimStart(s) ==
  IF s # <<>> /\ Head(s) \in Whitespace THEN TrimStart(Tail(s)) ELSE s

RECURSIVE TrimEnd(_)
TrimEnd(s) ==
  IF s # <<>> /\ s[Len(s)] \in Whitespace
    THEN TrimEnd(SubSeq(s, 1, Len(s) - 1))
    ELSE s

Trim(s) == TrimEnd(TrimStart(s))

\* ------------------------------------------------------------------------
\* Validator registry
\* ------------------------------------------------------------------------

RegistryNames == {"name", "email", "phone", "subject", "message"}

\* Names that validators[fieldName] also finds, the registry being a plain
\* object: members of Object.prototype.  What it finds is truthy and has no
\* pattern property.
PrototypeNames == {"constructor", "toString"}

\* /^[a-zA-Z\s'-]{2,50}$/
NamePattern(s) ==
  /\ Len(s) >= 2
  /\ Len(s) <= 50
  /\ AllIn(s, Letters \cup Whitespace \cup {"'", "-"})

\* /^[^\s@]+@[^\s@]+\.[^\s@]+$/
EmailPattern(s) ==
  \E i \in 1..Len(s) : \E j \in 1..Len(s) :
    /\ s[i] = "@"
    /\ s[j] = "."
    /\ 1 < i
    /\ i + 1 < j
    /\ j < Len(s)
    /\ NoneIn(SubSeq(s, 1, i - 1), Whitespace \cup {"@"})
    /\ NoneIn(SubSeq(s, i + 1, Len(s)), Whitespace \cup {"@"})

\* /^[\d\s\-\+\(\)]{10,}$/
PhonePattern(s) ==
  /\ Len(s) >= 10
  /\ AllIn(s, Digits \cup Whitespace \cup {"-", "+", "(", ")"})

\* /^.{3,100}$/ : the dot matches any character but a line terminator
SubjectPattern(s) ==
  /\ Len(s) >= 3
  /\ Len(s) <= 100
  /\ NoneIn(s, LineTerminators)

\* /^.{10,1000}$/
MessagePattern(s) ==
  /\ Len(s) >= 10
  /\ Len(s) <= 1000
  /\ NoneIn(s, LineTerminators)

PatternTest(fieldName, s) ==
  CASE fieldName = "name" -> NamePattern(s)
    [] fieldName = "email" -> EmailPattern(s)
    [] fieldName = "phone" -> PhonePattern(s)
    [] fieldName = "subject" -> SubjectPattern(s)
    [] fieldName = "message" -> MessagePattern(s)
    [] OTHER -> TRUE

ValidatorMessage(fieldName) ==
  CASE fieldName = "name" -> "Please enter a valid name (2-50 characters)"
    [] fieldName = "email" -> "Please enter a valid email address"
    [] fieldName = "phone" -> "Please enter a valid phone number"
    [] fieldName = "subject" -> "Subject must be between 3 and 100 characters"
    [] fieldName = "message" -> "Message must be between 10 and 1000 characters"
    [] OTHER -> ""

\* ------------------------------------------------------------------------
\* Field group rendering
\* ------------------------------------------------------------------------

\* A field group as the script sees it: the group's error/success classes,
\* the field's aria-invalid attribute ("absent" when not set) and the texts
\* of the group's .error-message elements, in document order.
UnvalidatedGroup == [classes |-> {}, aria |-> "absent", errors |-> <<>>]

\* clearFieldError that leaves the .error-message element in the group.
clearFieldErrorKeepNode(g) ==
  [classes |-> g.classes \ {"error", "success"},
   aria |-> "absent",
   errors |-> g.errors]

clearFieldError(g) ==
  [classes |-> g.classes \ {"error", "success"},
   aria |-> "absent",
   errors |-> IF g.errors = <<>> THEN <<>> ELSE Tail(g.errors)]

showFieldError(g, message) ==
  [classes |-> (g.classes \cup {"error"}) \ {"success"},
   aria |-> "true",
   errors |-> IF g.errors = <<>>
                THEN <<message>>
                ELSE [g.errors EXCEPT ![1] = message]]

\* showFieldSuccess that does not set aria-invalid.
showFieldSuccessNoAria(g) ==
  [classes |-> (g.classes \ {"error"}) \cup {"success"},
   aria |-> g.aria,
   errors |-> g.errors]

showFieldSuccess(g) ==
  [classes |-> (g.classes \ {"error"}) \cup {"success"},
   aria |-> "false",
   errors |-> g.errors]

\* validateField whose required check reads the value before trimming.
validateFieldUntrimmed(fieldName, isRequired, fieldValue, g) ==
  LET v == Trim(fieldValue)
      cleared == clearFieldError(g)
  IN  IF isRequired /\ fieldValue = <<>>
        THEN [ok |-> FALSE, threw |-> FALSE, message |-> RequiredMessage,
              group |-> showFieldError(cleared, RequiredMessage)]
        ELSE IF v # <<>> /\ fieldName \in PrototypeNames
          THEN [ok |-> FALSE, threw |-> TRUE, message |-> "", group |-> cleared]
        ELSE IF v # <<>> /\ fieldName \in RegistryNames /\ ~PatternTest(fieldName, v)
          THEN [ok |-> FALSE, threw |-> FALSE, message |-> ValidatorMessage(fieldName),
                group |-> showFieldError(cleared, ValidatorMessage(fieldName))]
          ELSE [ok |-> TRUE, threw |-> FALSE, message |-> "",
                group |-> showFieldSuccess(cleared)]

\* validateField(field): the returned boolean, the message shown (if any)
\* and the group as the run leaves it.  threw: the run ended in the TypeError
\* of validator.pattern.test, validator.pattern being undefined; nothing is
\* returned then and the group stays as clearFieldError left it.
validateField(fieldName, isRequired, fieldValue, g) ==
  LET v == Trim(fieldValue)
      cleared == clearFieldError(g)
  IN  IF isRequired /\ v = <<>>
        THEN [ok |-> FALSE, threw |-> FALSE, message |-> RequiredMessage,
              group |-> showFieldError(cleared, RequiredMessage)]
        ELSE IF v # <<>> /\ fieldName \in PrototypeNames
          THEN [ok |-> FALSE, threw |-> TRUE, message |-> "", group |-> cleared]
        ELSE IF v # <<>> /\ fieldName \in RegistryNames /\ ~PatternTest(fieldName, v)
          THEN [ok |-> FALSE, threw |-> FALSE, message |-> ValidatorMessage(fieldName),
                group |-> showFieldError(cleared, ValidatorMessage(fieldName))]
          ELSE [ok |-> TRUE, threw |-> FALSE, message |-> "",
                group |-> showFieldSuccess(cleared)]

\* ------------------------------------------------------------------------
\* The document and the modules' init functions
\* ------------------------------------------------------------------------

\* What the init functions look for in the document, and the style blocks
\* they add to it:
\*   header        an element matching header[role="banner"]
\*   container     a .header-container inside that header
\*   toggle        an element matching .mobile-nav-toggle
\*   expanded      the aria-expanded attribute that element has in the
\*                 markup, "absent" when it has none or is not there
\*   nav           an element matching header nav
\*   form          an element matching .contact-form
\*   submit        a button[type="submit"] inside that form
\*   observer      'IntersectionObserver' in window
\*   mobileStyles  the elements with id mobile-nav-styles
\*   scrollStyles  the elements with id scroll-animation-styles
\* The document of the page has all of the elements but the toggle, and no
\* style block before the script runs.
PageDocument ==
  [header |-> TRUE, container |-> TRUE, toggle |-> FALSE,
   expanded |-> "absent", nav |-> TRUE,
   form |-> TRUE, submit |-> TRUE, observer |-> TRUE,
   mobileStyles |-> 0, scrollStyles |-> 0]

Documents ==
  [header : BOOLEAN, container : BOOLEAN, toggle : BOOLEAN,
   expanded : {"absent"}, nav : BOOLEAN,
   form : BOOLEAN, submit : BOOLEAN, observer : BOOLEAN,
   mobileStyles : {0}, scrollStyles : {0}]

\* addMobileStyles without the getElementById guard.
addMobileStylesUnguarded(d) == [d EXCEPT !.mobileStyles = @ + 1]

addMobileStyles(d) ==
  IF d.mobileStyles > 0 THEN d ELSE [d EXCEPT !.mobileStyles = @ + 1]

addAnimationStyles(d) ==
  IF d.scrollStyles > 0 THEN d ELSE [d EXCEPT !.scrollStyles = @ + 1]

\* createMobileToggle: the document after it, and whether navToggle is set.
\* The button it creates is in the document only if the header has a
\* .header-container to insert it into.
createMobileToggle(d) ==
  IF ~d.header
    THEN [doc |-> d, navToggle |-> FALSE]
    ELSE IF d.toggle
      THEN [doc |-> d, navToggle |-> TRUE]
      ELSE [doc |-> addMobileStyles([d EXCEPT !.toggle = d.container]),
            navToggle |-> TRUE]

NavigationListeners ==
  {"navToggle.click", "navLinks.click", "document.click", "window.resize",
   "document.keydown", "navLinks.keydown"}

\* MobileNavigation.init without the check of navToggle and navMenu:
\* navToggle.addEventListener throws when navToggle is null.
MobileNavigationInitUnchecked(d) ==
  LET t == createMobileToggle(d)
  IN  IF ~t.navToggle
        THEN [doc |-> t.doc, listeners |-> {}, threw |-> TRUE]
        ELSE [doc |-> t.doc, listeners |-> NavigationListeners, threw |-> FALSE]

\* An init function: the document after it, the listeners it has added and
\* whether it threw.
MobileNavigationInit(d) ==
  LET t == createMobileToggle(d)
  IN  IF ~t.navToggle \/ ~d.nav
        THEN [doc |-> t.doc, listeners |-> {}, threw |-> FALSE]
        ELSE [doc |-> t.doc, listeners |-> NavigationListeners, threw |-> FALSE]

SmoothScrollInit(d) ==
  [doc |-> d, listeners |-> {"links.click"}, threw |-> FALSE]

\* Without IntersectionObserver loadAllImages calls loadImage on each image,
\* which adds its load and error listeners.
LazyLoadingInit(d) ==
  [doc |-> d,
   listeners |-> IF d.observer THEN {} ELSE {"img.load", "img.error"},
   threw |-> FALSE]

FormListeners == {"input.blur", "input.input", "form.submit"}

FormValidationInit(d) ==
  IF ~d.form
    THEN [doc |-> d, listeners |-> {}, threw |-> FALSE]
    ELSE [doc |-> d, listeners |-> FormListeners, threw |-> FALSE]

ScrollAnimationsInit(d) ==
  IF ~d.observer
    THEN [doc |-> d, listeners |-> {}, threw |-> FALSE]
    ELSE [doc |-> addAnimationStyles(d), listeners |-> {}, threw |-> FALSE]

ModuleInit(m, d) ==
  CASE m = "MobileNavigation" -> MobileNavigationInit(d)
    [] m = "SmoothScroll" -> SmoothScrollInit(d)
    [] m = "LazyLoading" -> LazyLoadingInit(d)
    [] m = "FormValidation" -> FormValidationInit(d)
    [] m = "ScrollAnimations" -> ScrollAnimationsInit(d)

\* ------------------------------------------------------------------------
\* Mobile navigation
\* ------------------------------------------------------------------------

\* The navigation as MobileNavigation sees it: its isOpen flag, whether the
\* body and the nav menu have the nav-open class, and the toggle's
\* aria-expanded and aria-label attributes ("absent" when not set).  Before
\* the script runs nothing is open; a toggle in the page's markup has the
\* attributes the markup gives it.
ClosedNavigation(expanded) ==
  [isOpen |-> FALSE, body |-> FALSE, menu |-> FALSE, expanded |-> expanded,
   label |-> "absent"]

\* createMobileToggle sets the attributes of the button it creates; a toggle
\* it finds in the document keeps its own.
ToggleAttributes(n, d) ==
  IF d.header /\ ~d.toggle
    THEN [n EXCEPT !.expanded = "false", !.label = "Toggle navigation menu"]
    ELSE n

\* The navigation after the inits of the modules in returned, run in
\* document d.
NavigationAfter(returned, n, d) ==
  IF \E i \in 1..Len(returned) : returned[i] = "MobileNavigation"
    THEN ToggleAttributes(n, d)
    ELSE n

\* openNav; the focus it gives the first nav link is left out.
openNav(n) ==
  [n EXCEPT !.isOpen = TRUE, !.body = TRUE, !.menu = TRUE,
            !.expanded = "true", !.label = "Close navigation menu"]

closeNav(n) ==
  [n EXCEPT !.isOpen = FALSE, !.body = FALSE, !.menu = FALSE,
            !.expanded = "false", !.label = "Open navigation menu"]

toggleNav(n) == IF n.isOpen THEN closeNav(n) ELSE openNav(n)

handleNavLinkClick(n, width) ==
  IF width < MOBILE_BREAKPOINT THEN closeNav(n) ELSE n

\* Where a click can land: on the toggle (or one of its lines), on a nav
\* link, elsewhere in the nav menu, or outside both.
ClickTargets == {"toggle", "link", "menu", "outside"}

\* handleOutsideClick without the navToggle.contains check.
handleOutsideClickMenuOnly(n, target) ==
  IF ~n.isOpen
    THEN n
    ELSE IF target \notin {"link", "menu"} THEN closeNav(n) ELSE n

\* handleOutsideClick: navMenu contains the links, navToggle its lines.
handleOutsideClick(n, target) ==
  IF ~n.isOpen
    THEN n
    ELSE IF target \notin {"link", "menu"} /\ target # "toggle"
      THEN closeNav(n)
      ELSE n

handleResize(n, width) ==
  IF width >= MOBILE_BREAKPOINT /\ n.isOpen THEN closeNav(n) ELSE n

\* The click listeners of MobileNavigation in the order a click reaches
\* them: the one on the element clicked, then, the event bubbling, the one
\* on the document.
ClickListeners(n, target, width) ==
  LET atTarget == CASE target = "toggle" -> toggleNav(n)
                    [] target = "link" -> handleNavLinkClick(n, width)
                    [] OTHER -> n
  IN  handleOutsideClick(atTarget, target)

Keys == {"Escape", "Tab", "Enter"}

\* The keydown listeners: the one on the last nav link, when the key is
\* pressed there, then the one on the document.
KeydownListeners(n, key, shiftKey, onLastLink) ==
  LET atLink == IF onLastLink /\ key = "Tab" /\ ~shiftKey
                  THEN closeNav(n)
                  ELSE n
  IN  IF key = "Escape" /\ atLink.isOpen THEN closeNav(atLink) ELSE atLink

\* ------------------------------------------------------------------------
\* Application initialization
\* ------------------------------------------------------------------------

\* The init calls with FormValidation's moved before LazyLoading's.
InitOrderSwapped ==
  <<"MobileNavigation", "SmoothScroll", "FormValidation", "LazyLoading",
    "ScrollAnimations">>

\* The init calls of runInitialization, in the order it makes them.
InitOrder ==
  <<"MobileNavigation", "SmoothScroll", "LazyLoading", "FormValidation",
    "ScrollAnimations">>

Modules == {InitOrder[i] : i \in 1..Len(InitOrder)}

\* The try block of runInitialization: the calls are made one after the
\* other; the first init that throws ends the block and control passes to
\* the catch clause.  throwing: the modules whose init throws in this
\* document.
RECURSIVE TryInits(_, _, _)
TryInits(calls, throwing, done) ==
  IF calls = <<>>
    THEN [initialised |-> done, caught |-> <<>>, uncaught |-> <<>>]
    ELSE IF Head(calls) \in throwing
      THEN [initialised |-> done, caught |-> <<Head(calls)>>, uncaught |-> <<>>]
      ELSE TryInits(Tail(calls), throwing, Append(done, Head(calls)))

\* runInitialization with a try/catch around each init call of its own.
RECURSIVE TryEach(_, _, _, _)
TryEach(calls, throwing, done, failed) ==
  IF calls = <<>>
    THEN [initialised |-> done, caught |-> failed, uncaught |-> <<>>]
    ELSE IF Head(calls) \in throwing
      THEN TryEach(Tail(calls), throwing, done, Append(failed, Head(calls)))
      ELSE TryEach(Tail(calls), throwing, Append(done, Head(calls)), failed)

runInitializationIsolated(throwing) == TryEach(InitOrder, throwing, <<>>, <<>>)

runInitialization(throwing) == TryInits(InitOrder, throwing, <<>>)

\* What the init functions of the modules in returned, called in that
\* order, make of document d: the document after them and the listeners each
\* of them has added.
RECURSIVE InitEffects(_, _, _)
InitEffects(returned, d, added) ==
  IF returned = <<>>
    THEN [doc |-> d, listeners |-> added]
    ELSE LET r == ModuleInit(Head(returned), d)
         IN  InitEffects(Tail(returned), r.doc,
                         [added EXCEPT ![Head(returned)] = r.listeners])

NoListeners == [m \in Modules |-> {}]

\* The modules of InitOrder before its k-th.
Before(k) == SubSeq(InitOrder, 1, k - 1)

\* The modules whose init, called after the inits before it, throws in
\* document d by its own code.
Throwing(d) ==
  {InitOrder[k] : k \in {j \in 1..Len(InitOrder) :
     ModuleInit(InitOrder[j], InitEffects(Before(j), d, NoListeners).doc).threw}}

\* ------------------------------------------------------------------------
\* State
\* ------------------------------------------------------------------------

VARIABLES
  readyState,    \* document.readyState
  phase,         \* "script": initializeApp not yet called; "waiting": the
                 \* DOMContentLoaded listener is registered; "ran"
  initialised,   \* the modules whose init returned, in call order
  caught,        \* the modules whose init threw into the catch clause
  uncaught,      \* the modules whose exception left runInitialization
  fields,        \* the form's inputs in document order: name, required
  value,         \* field -> current value
  group,         \* field -> its field group (classes, aria-invalid, errors)
  timers,        \* field -> pending timers of the field's debounce closure
  focus,         \* the focused field, 0 when none of the form's fields
  button,        \* the submit button: disabled, loading class, label
  inflight,      \* submitForm calls suspended at the await, oldest first
  lastRun,       \* field -> outcome of the last validateField run on it
  cleared,       \* field -> cleared by a success since its last run
  sinceInput,    \* field -> ms since its last input event (capped)
  lastEvent,     \* what came last: a submit event that "started" a
                 \* submission or was "aborted", the "success" of a
                 \* submission, or a blur or input event on a "field"
                 \* (also before any of them)
  validSubmits,  \* submit events whose fields all passed validation
  successShown,  \* success banners inserted before the form so far
  errorShown,    \* error banners inserted before the form so far
  banner,        \* the text of the banner inserted last, "" before any
  rejections,    \* submitForm calls whose promise was rejected
  doc,           \* the document: the elements the inits look for, the
                 \* style blocks they add
  listeners,     \* module -> the listeners its init has added
  faults,        \* the modules whose init throws for a reason outside the
                 \* script, in the latest runInitialization
  loads,         \* how many times the script has been evaluated
  operation,     \* what the promise that submitForm awaits does: resolve
                 \* when its "timer" fires (the script's), or, with a
                 \* call in its place, "reject" at that time or "never"
                 \* settle
  nav,           \* MobileNavigation's isOpen, the nav-open classes and the
                 \* toggle's attributes
  innerWidth,    \* window.innerWidth
  resizeTimer,   \* pending timers of the resize listener's debounce closure
  navEvent       \* the navigation event that came last, "none" before any

vars ==
  <<readyState, phase, initialised, caught, uncaught, fields, value, group,
    timers, focus, button, inflight, lastRun, cleared, sinceInput,
    lastEvent, validSubmits, successShown, errorShown, banner, rejections,
    doc, listeners, faults, loads, operation, nav, innerWidth, resizeTimer,
    navEvent>>

initVars ==
  <<readyState, phase, initialised, caught, uncaught, doc, listeners, faults,
    loads, operation, nav, innerWidth, resizeTimer, navEvent>>

\* What the events on the window leave behind.
windowVars == <<innerWidth, resizeTimer, navEvent>>

formVars ==
  <<value, group, timers, focus, button, inflight, lastRun, cleared,
    sinceInput, lastEvent, validSubmits, successShown, errorShown, banner,
    rejections>>

\* The contact form of the page: a required name and an optional phone.
ContactForm ==
  <<[name |-> "name", required |-> TRUE],
    [name |-> "phone", required |-> FALSE]>>

\* What the user may type into a field of the given name.
Typed(fieldName) ==
  CASE fieldName = "name" -> {<<>>, <<"J", "o">>}
    [] fieldName = "phone" -> {<<>>, <<"5", "5", "5">>}
    [] OTHER -> {<<>>}

\* The value form.reset() gives a field: its value attribute, none in the page.
DefaultValue == <<>>

F == 1..Len(fields)

\* The clock's unit: every delay of the script is a multiple of it, so each
\* order in which events and timers can follow each other in real time also
\* occurs with the events placed on multiples of Tick.
Tick == GCD(SUBMIT_DELAY, FORM_VALIDATION_DELAY)

\* The form's listeners are there: FormValidation.init has added them.
Listening == listeners["FormValidation"] # {}

InitForm(form) ==
  /\ fields = form
  /\ value = [f \in 1..Len(form) |-> DefaultValue]
  /\ group = [f \in 1..Len(form) |-> UnvalidatedGroup]
  /\ timers = [f \in 1..Len(form) |-> <<>>]
  /\ focus = 0
  /\ button = [disabled |-> FALSE, loading |-> FALSE, label |-> OriginalLabel]
  /\ inflight = <<>>
  /\ lastRun = [f \in 1..Len(form) |-> "none"]
  /\ cleared = [f \in 1..Len(form) |-> FALSE]
  /\ sinceInput = [f \in 1..Len(form) |-> FORM_VALIDATION_DELAY]
  /\ lastEvent = "field"
  /\ validSubmits = 0
  /\ successShown = 0
  /\ errorShown = 0
  /\ banner = ""
  /\ rejections = 0

\* The script is about to be evaluated, for the first time, in document d.
InitScript(d) ==
  /\ readyState \in {"loading", "interactive"}
  /\ phase = "script"
  /\ initialised = <<>>
  /\ caught = <<>>
  /\ uncaught = <<>>
  /\ doc = d
  /\ listeners = NoListeners
  /\ faults = {}
  /\ loads = 1
  /\ nav = ClosedNavigation(d.expanded)
  /\ resizeTimer = <<>>
  /\ navEvent = "none"

\* The startup sequence has run in document d, no init having thrown.
InitRan(d) ==
  /\ readyState = "interactive"
  /\ phase = "ran"
  /\ initialised = InitOrder
  /\ caught = <<>>
  /\ uncaught = <<>>
  /\ doc = InitEffects(InitOrder, d, NoListeners).doc
  /\ listeners = InitEffects(InitOrder, d, NoListeners).listeners
  /\ faults = {}
  /\ loads = 1
  /\ nav = NavigationAfter(InitOrder, ClosedNavigation(d.expanded), d)
  /\ resizeTimer = <<>>
  /\ navEvent = "none"

Init ==
  /\ InitScript(PageDocument)
  /\ operation = "timer"
  /\ innerWidth = PageWidth
  /\ InitForm(ContactForm)

\* ------------------------------------------------------------------------
\* Startup
\* ------------------------------------------------------------------------

\* runInitialization in the document as it is, with the inits of the modules
\* in throwing failing for a reason outside the script (what such an init did
\* to the document before it threw is left out).
RunInitialization(throwing) ==
  LET r == runInitialization(throwing \cup Throwing(doc))
      e == InitEffects(r.initialised, doc, NoListeners)
  IN  /\ initialised' = r.initialised
      /\ caught' = r.caught
      /\ uncaught' = r.uncaught
      /\ phase' = "ran"
      /\ doc' = e.doc
      /\ listeners' = e.listeners
      /\ faults' = throwing
      /\ nav' = NavigationAfter(r.initialised, nav, doc)

\* initializeApp, called once when the script is evaluated.
InitializeApp ==
  /\ phase = "script"
  /\ IF readyState = "loading"
       THEN /\ phase' = "waiting"
            /\ UNCHANGED <<initialised, caught, uncaught, doc, listeners,
                           faults, nav>>
       ELSE \E throwing \in SUBSET Modules : RunInitialization(throwing)
  /\ UNCHANGED <<readyState, fields, loads, operation>>
  /\ UNCHANGED windowVars
  /\ UNCHANGED formVars

\* The document's DOMContentLoaded event.
DOMContentLoaded ==
  /\ phase = "waiting"
  /\ readyState' = "interactive"
  /\ \E throwing \in SUBSET Modules : RunInitialization(throwing)
  /\ UNCHANGED <<fields, loads, operation>>
  /\ UNCHANGED windowVars
  /\ UNCHANGED formVars

\* The script is evaluated once more (the page includes it twice): a new
\* instance of every module, in the document as the earlier one left it.
ScriptAgain ==
  /\ phase = "ran"
  /\ loads < MaxLoads
  /\ loads' = loads + 1
  /\ phase' = "script"
  /\ initialised' = <<>>
  /\ caught' = <<>>
  /\ uncaught' = <<>>
  /\ listeners' = NoListeners
  /\ faults' = {}
  /\ UNCHANGED <<readyState, doc, operation, fields, nav>>
  /\ UNCHANGED windowVars
  /\ UNCHANGED formVars

\* ------------------------------------------------------------------------
\* Timers
\* ------------------------------------------------------------------------

\* clearTimeout(timeout) in a debounce closure: timeout holds the id of the
\* closure's latest timer, which is the last of its pending ones if it has
\* not fired yet (the timers of one closure have the same delay and fire in
\* the order they were set).
clearTimeout(pending) ==
  IF pending = <<>> THEN <<>> ELSE SubSeq(pending, 1, Len(pending) - 1)

\* debounce without the clearTimeout before setTimeout.
debounceNoClear(pending, wait) == Append(pending, wait)

\* A call of the function debounce(func, wait) returns: the closure's
\* pending timers after it.
debounce(pending, wait) == Append(clearTimeout(pending), wait)

\* The promise that submitForm awaits settles at some time.
Settles == operation # "never"

\* The remaining times of every pending timer, the times at which the
\* awaited promises settle included.
Remaining ==
  UNION {{timers[f][i] : i \in 1..Len(timers[f])} : f \in F}
    \cup (IF Settles
            THEN {inflight[i].remaining : i \in 1..Len(inflight)}
            ELSE {})

\* ------------------------------------------------------------------------
\* Field events
\* ------------------------------------------------------------------------

\* One run of validateField on field f, given the groups before it.
RunOn(f, groups) ==
  validateField(fields[f].name, fields[f].required, value[f], groups[f])

Outcome(r) == IF r.threw THEN "threw" ELSE IF r.ok THEN "valid" ELSE "invalid"

\* The blur listener of field f: () => validateField(input).
BlurListener(f) ==
  /\ group' = [group EXCEPT ![f] = RunOn(f, group).group]
  /\ lastRun' = [lastRun EXCEPT ![f] = Outcome(RunOn(f, group))]
  /\ cleared' = [cleared EXCEPT ![f] = FALSE]

\* The user moves the focus to field target (0: out of the form's fields);
\* the field that loses it gets a blur event.
MoveFocus(target) ==
  /\ Listening
  /\ target # focus
  /\ focus' = target
  /\ IF focus # 0
       THEN BlurListener(focus) /\ lastEvent' = "field"
       ELSE UNCHANGED <<group, lastRun, cleared, lastEvent>>
  /\ UNCHANGED <<value, timers, button, inflight, sinceInput,
                 validSubmits, successShown, errorShown, banner, rejections>>
  /\ UNCHANGED initVars
  /\ UNCHANGED fields

\* An input event on field f, whose value becomes v: the debounced listener
\* restarts the field's timer.
InputEvent(f, v) ==
  /\ Listening
  /\ v # value[f]
  /\ value' = [value EXCEPT ![f] = v]
  /\ timers' = [timers EXCEPT ![f] = debounce(timers[f], FORM_VALIDATION_DELAY)]
  /\ sinceInput' = [sinceInput EXCEPT ![f] = 0]
  /\ lastEvent' = "field"
  /\ UNCHANGED <<group, focus, button, inflight, lastRun, cleared,
                 validSubmits, successShown, errorShown, banner, rejections>>
  /\ UNCHANGED initVars
  /\ UNCHANGED fields

\* The oldest timer of field f's debounce closure fires: later() clears the
\* closure's timeout and calls validateField.
DebounceFire(f) ==
  /\ timers[f] # <<>>
  /\ Head(timers[f]) = 0
  /\ timers' = [timers EXCEPT ![f] = clearTimeout(Tail(timers[f]))]
  /\ group' = [group EXCEPT ![f] = RunOn(f, group).group]
  /\ lastRun' = [lastRun EXCEPT ![f] = Outcome(RunOn(f, group))]
  /\ cleared' = [cleared EXCEPT ![f] = FALSE]
  /\ UNCHANGED <<value, focus, button, inflight, sinceInput, lastEvent,
                 validSubmits, successShown, errorShown, banner, rejections>>
  /\ UNCHANGED initVars
  /\ UNCHANGED fields

\* Time passes, up to the next timer that is due.
Advance ==
  /\ Remaining # {}
  /\ \A r \in Remaining : r > 0
  /\ LET least == CHOOSE r \in Remaining : \A q \in Remaining : r <= q
         d == Min(Tick, least)
     IN  /\ timers' = [f \in F |-> [i \in 1..Len(timers[f]) |-> timers[f][i] - d]]
         /\ inflight' = [i \in 1..Len(inflight) |->
                           IF Settles
                             THEN [inflight[i] EXCEPT !.remaining = @ - d]
                             ELSE inflight[i]]
         /\ sinceInput' = [f \in F |-> Min(FORM_VALIDATION_DELAY, sinceInput[f] + d)]
  /\ UNCHANGED <<value, group, focus, button, lastRun, cleared,
                 lastEvent, validSubmits, successShown, errorShown, banner,
                 rejections>>
  /\ UNCHANGED initVars
  /\ UNCHANGED fields

\* ------------------------------------------------------------------------
\* Form submission
\* ------------------------------------------------------------------------

\* The forEach loop ending at the first field that fails validateField.
RECURSIVE ValidateAllUntilFailure(_, _, _, _)
ValidateAllUntilFailure(i, groups, results, isValid) ==
  IF i > Len(fields) \/ ~isValid
    THEN [groups |-> groups, results |-> results, isValid |-> isValid,
          threw |-> FALSE, calls |-> i - 1]
    ELSE LET r == RunOn(i, groups)
         IN  IF r.threw
               THEN [groups |-> [groups EXCEPT ![i] = r.group],
                     results |-> [results EXCEPT ![i] = Outcome(r)],
                     isValid |-> isValid, threw |-> TRUE, calls |-> i]
               ELSE ValidateAllUntilFailure(i + 1,
                                            [groups EXCEPT ![i] = r.group],
                                            [results EXCEPT ![i] = Outcome(r)],
                                            IF ~r.ok THEN FALSE ELSE isValid)

\* inputs.forEach(input => { if (!validateField(input)) isValid = false })
\* from field i on: the groups, the per-field results and isValid after it.
\* threw: a validateField call threw, which ends the loop and the handler.
\* calls: the number of fields validateField was called on.
RECURSIVE ValidateAll(_, _, _, _)
ValidateAll(i, groups, results, isValid) ==
  IF i > Len(fields)
    THEN [groups |-> groups, results |-> results, isValid |-> isValid,
          threw |-> FALSE, calls |-> i - 1]
    ELSE LET r == RunOn(i, groups)
         IN  IF r.threw
               THEN [groups |-> [groups EXCEPT ![i] = r.group],
                     results |-> [results EXCEPT ![i] = Outcome(r)],
                     isValid |-> isValid, threw |-> TRUE, calls |-> i]
               ELSE ValidateAll(i + 1,
                                [groups EXCEPT ![i] = r.group],
                                [results EXCEPT ![i] = Outcome(r)],
                                IF ~r.ok THEN FALSE ELSE isValid)

\* The last field inside a group with the error class instead of the first.
FirstErrorLast(groups) ==
  IF \E f \in F : "error" \in groups[f].classes
    THEN CHOOSE f \in F :
           /\ "error" \in groups[f].classes
           /\ \A g \in F : "error" \in groups[g].classes => g <= f
    ELSE 0

\* form.querySelector('.error input, .error textarea'): the first field, in
\* document order, inside a group with the error class; 0 when there is none.
FirstError(groups) ==
  IF \E f \in F : "error" \in groups[f].classes
    THEN CHOOSE f \in F :
           /\ "error" \in groups[f].classes
           /\ \A g \in F : "error" \in groups[g].classes => f <= g
    ELSE 0

\* firstError.focus(): the field that loses the focus gets a blur event,
\* whose listener validates it again.
FocusFirstError(fe, groups) ==
  IF fe # 0 /\ focus # 0 /\ focus # fe
    THEN [groups EXCEPT ![focus] = RunOn(focus, groups).group]
    ELSE groups

\* submitForm up to its await: the button as it leaves it, and the suspended
\* call with the originalText it read.  In a form without a submit button
\* submitButton is null and reading its textContent, before the try block,
\* throws: the call ends there and the promise it returns is rejected.
SubmitStart ==
  IF doc.submit
    THEN /\ button' = [disabled |-> TRUE, loading |-> TRUE,
                       label |-> SendingLabel]
         /\ inflight' = Append(inflight,
                               [originalText |-> button.label,
                                remaining |-> SUBMIT_DELAY])
         /\ UNCHANGED rejections
    ELSE /\ rejections' = rejections + 1
         /\ UNCHANGED <<button, inflight>>

\* A submit event on the form: handleFormSubmit.
handleFormSubmit ==
  LET v == ValidateAll(1, group, lastRun, TRUE)
      fe == FirstError(v.groups)
  IN  /\ lastRun' = v.results
      /\ cleared' = [f \in F |-> IF f <= v.calls THEN FALSE ELSE cleared[f]]
      /\ IF v.threw
           THEN /\ group' = v.groups
                /\ lastEvent' = "aborted"
                /\ UNCHANGED <<focus, button, inflight, validSubmits,
                               rejections>>
           ELSE IF v.isValid
             THEN /\ SubmitStart
                  /\ lastEvent' = "started"
                  /\ validSubmits' = validSubmits + 1
                  /\ group' = v.groups
                  /\ UNCHANGED focus
             ELSE /\ group' = FocusFirstError(fe, v.groups)
                  /\ focus' = IF fe # 0 THEN fe ELSE focus
                  /\ lastEvent' = "aborted"
                  /\ UNCHANGED <<button, inflight, validSubmits, rejections>>

SubmitEvent ==
  /\ Listening
  /\ validSubmits < MaxSubmits
  /\ handleFormSubmit
  /\ UNCHANGED <<value, timers, sinceInput, successShown, errorShown, banner>>
  /\ UNCHANGED initVars
  /\ UNCHANGED fields

\* submitForm from its await on without the finally clause.
SubmitResumeNoFinally ==
  /\ successShown' = successShown + 1
  /\ banner' = SuccessMessage
  /\ value' = [f \in F |-> DefaultValue]
  /\ group' = [f \in F |-> clearFieldError(group[f])]
  /\ button' = button
  /\ inflight' = Tail(inflight)

\* submitForm from its await on without the clearFieldError calls.
SubmitResumeNoClear ==
  LET call == Head(inflight)
  IN  /\ successShown' = successShown + 1
      /\ banner' = SuccessMessage
      /\ value' = [f \in F |-> DefaultValue]
      /\ group' = group
      /\ button' = [disabled |-> FALSE, loading |-> FALSE,
                    label |-> call.originalText]
      /\ inflight' = Tail(inflight)

\* submitForm from its await on without the form.reset() call.
SubmitResumeNoReset ==
  LET call == Head(inflight)
  IN  /\ successShown' = successShown + 1
      /\ banner' = SuccessMessage
      /\ value' = value
      /\ group' = [f \in F |-> clearFieldError(group[f])]
      /\ button' = [disabled |-> FALSE, loading |-> FALSE,
                    label |-> call.originalText]
      /\ inflight' = Tail(inflight)

\* submitForm from its await on, for the call suspended longest: the
\* promise's timer has fired, the try block ends and the finally clause runs.
\* showFormSuccess inserts one banner; the timer that removes it 5000 ms
\* later touches nothing else and is left out.
SubmitResume ==
  LET call == Head(inflight)
  IN  /\ successShown' = successShown + 1
      /\ banner' = SuccessMessage
      /\ value' = [f \in F |-> DefaultValue]
      /\ group' = [f \in F |-> clearFieldError(group[f])]
      /\ button' = [disabled |-> FALSE, loading |-> FALSE,
                    label |-> call.originalText]
      /\ inflight' = Tail(inflight)

\* The timer of the promise awaited longest fires and resolves it.
CompleteSubmission ==
  /\ operation = "timer"
  /\ inflight # <<>>
  /\ Head(inflight).remaining = 0
  /\ SubmitResume
  /\ cleared' = [f \in F |-> TRUE]
  /\ lastEvent' = "success"
  /\ UNCHANGED <<timers, focus, lastRun, sinceInput, validSubmits,
                 errorShown, rejections>>
  /\ UNCHANGED initVars
  /\ UNCHANGED fields

\* The catch clause that also resets the form, as the try block does.
SubmitCatchResets ==
  LET call == Head(inflight)
  IN  /\ errorShown' = errorShown + 1
      /\ banner' = FailedMessage
      /\ value' = [f \in F |-> DefaultValue]
      /\ group' = [f \in F |-> clearFieldError(group[f])]
      /\ button' = [disabled |-> FALSE, loading |-> FALSE,
                    label |-> call.originalText]
      /\ inflight' = Tail(inflight)

\* submitForm from its await on when the awaited promise is rejected: the
\* catch clause shows the error banner, then the finally clause runs.
SubmitCatch ==
  LET call == Head(inflight)
  IN  /\ errorShown' = errorShown + 1
      /\ banner' = FailedMessage
      /\ UNCHANGED <<value, group>>
      /\ button' = [disabled |-> FALSE, loading |-> FALSE,
                    label |-> call.originalText]
      /\ inflight' = Tail(inflight)

\* The promise awaited longest is rejected.
FailSubmission ==
  /\ operation = "reject"
  /\ inflight # <<>>
  /\ Head(inflight).remaining = 0
  /\ SubmitCatch
  /\ lastEvent' = "failure"
  /\ UNCHANGED <<timers, focus, lastRun, cleared, sinceInput, validSubmits,
                 successShown, rejections>>
  /\ UNCHANGED initVars
  /\ UNCHANGED fields

\* ------------------------------------------------------------------------
\* Specification
\* ------------------------------------------------------------------------

Next ==
  \/ InitializeApp
  \/ DOMContentLoaded
  \/ \E target \in 0..Len(fields) : MoveFocus(target)
  \/ \E f \in F : \E v \in Typed(fields[f].name) : InputEvent(f, v)
  \/ \E f \in F : DebounceFire(f)
  \/ Advance
  \/ SubmitEvent
  \/ CompleteSubmission

Spec == Init /\ [][Next]_vars

\* ------------------------------------------------------------------------
\* One field of any name, required or not: validateField on its own
\* ------------------------------------------------------------------------

FieldNames == RegistryNames \cup {"company"} \cup PrototypeNames

\* Values to validate: empty, whitespace only, padded, short and long ones.
Samples ==
  {<<>>, <<" ">>, <<" ", "\t">>, <<"\n">>, <<"J">>, <<" ", "J", "o", " ">>,
   <<"a", "@", "b", ".", "c">>, <<"5", "5", "5">>, Rep("5", 10)}

InitField ==
  /\ InitRan(PageDocument)
  /\ operation = "timer"
  /\ innerWidth = PageWidth
  /\ \E n \in FieldNames : \E r \in BOOLEAN :
       InitForm(<<[name |-> n, required |-> r]>>)

NextField ==
  \/ \E target \in 0..Len(fields) : MoveFocus(target)
  \/ \E f \in F : \E v \in Samples : InputEvent(f, v)
  \/ \E f \in F : DebounceFire(f)
  \/ Advance

SpecField == InitField /\ [][NextField]_vars

\* ------------------------------------------------------------------------
\* One subject or message field: the length ranges
\* ------------------------------------------------------------------------

TextNames == {"subject", "message"}

\* Values at both ends of the subject's and the message's length ranges and
\* just outside them, padded ones, and values of several lines.
TextSamples ==
  {<<>>, Rep("a", 2), Rep("a", 3), Rep("a", 9), Rep("a", 10), Rep("a", 100),
   Rep("a", 101), Rep("a", 1000), Rep("a", 1001),
   <<" ">> \o Rep("a", 100) \o <<"\n">>,
   <<"a", "b", "\n", "c">>,
   Rep("a", 5) \o <<"\r", "\n">> \o Rep("b", 5)}

InitText ==
  /\ InitRan(PageDocument)
  /\ operation = "timer"
  /\ innerWidth = PageWidth
  /\ \E n \in TextNames : \E r \in BOOLEAN :
       InitForm(<<[name |-> n, required |-> r]>>)

NextText ==
  \/ \E target \in 0..Len(fields) : MoveFocus(target)
  \/ \E f \in F : \E v \in TextSamples : InputEvent(f, v)
  \/ \E f \in F : DebounceFire(f)
  \/ Advance

SpecText == InitText /\ [][NextText]_vars

\* ------------------------------------------------------------------------
\* Any document: the startup sequence, run once or again
\* ------------------------------------------------------------------------

InitDocument ==
  \E d \in Documents :
    /\ InitScript(d)
    /\ operation = "timer"
    /\ innerWidth = PageWidth
    /\ InitForm(IF d.form THEN ContactForm ELSE <<>>)

NextDocument ==
  \/ InitializeApp
  \/ DOMContentLoaded
  \/ ScriptAgain

SpecDocument == InitDocument /\ [][NextDocument]_vars

\* ------------------------------------------------------------------------
\* The navigation: clicks, key presses and resizes in a page whose toggle is
\* created by the script or is in the markup
\* ------------------------------------------------------------------------

\* MobileNavigation.init has added its listeners.
NavListening == listeners["MobileNavigation"] # {}

\* What no listener of MobileNavigation touches.
NavUnchanged ==
  /\ UNCHANGED <<readyState, phase, initialised, caught, uncaught, doc,
                 listeners, faults, loads, operation, fields>>
  /\ UNCHANGED formVars

\* A click on target.  The toggle can be clicked when it is in the document.
Click(target) ==
  /\ NavListening
  /\ target = "toggle" => doc.toggle
  /\ nav' = ClickListeners(nav, target, innerWidth)
  /\ navEvent' = target
  /\ UNCHANGED <<innerWidth, resizeTimer>>
  /\ NavUnchanged

\* A key goes down, on the last nav link or elsewhere.
Keydown(key, shiftKey, onLastLink) ==
  /\ NavListening
  /\ nav' = KeydownListeners(nav, key, shiftKey, onLastLink)
  /\ navEvent' = key
  /\ UNCHANGED <<innerWidth, resizeTimer>>
  /\ NavUnchanged

\* The window is resized to width: the debounced listener restarts its
\* timer.
Resize(width) ==
  /\ NavListening
  /\ width # innerWidth
  /\ innerWidth' = width
  /\ resizeTimer' = debounce(resizeTimer, DEBOUNCE_DELAY)
  /\ navEvent' = "resize"
  /\ UNCHANGED nav
  /\ NavUnchanged

\* DEBOUNCE_DELAY ms after the last resize the closure's timer fires:
\* later() clears the timeout and calls handleResize.
ResizeFire ==
  /\ resizeTimer # <<>>
  /\ resizeTimer' = clearTimeout(Tail(resizeTimer))
  /\ nav' = handleResize(nav, innerWidth)
  /\ navEvent' = "resized"
  /\ UNCHANGED innerWidth
  /\ NavUnchanged

Widths == {MOBILE_BREAKPOINT - 1, MOBILE_BREAKPOINT}

\* The page's document, its header with or without a .header-container,
\* with the toggle left to the script or given in the markup, there with
\* aria-expanded="false" or without the attribute.
NavDocuments ==
  {[PageDocument EXCEPT !.container = c, !.toggle = t, !.expanded = e] :
     c \in BOOLEAN, t \in BOOLEAN, e \in {"absent", "false"}}

InitNav ==
  /\ \E d \in NavDocuments :
       /\ d.toggle \/ d.expanded = "absent"
       /\ InitRan(d)
  /\ operation = "timer"
  /\ innerWidth \in Widths
  /\ InitForm(ContactForm)

NextNav ==
  \/ \E target \in ClickTargets : Click(target)
  \/ \E key \in Keys : \E shiftKey \in BOOLEAN : \E onLastLink \in BOOLEAN :
       Keydown(key, shiftKey, onLastLink)
  \/ \E width \in Widths : Resize(width)
  \/ ResizeFire

SpecNav == InitNav /\ [][NextNav]_vars

\* ------------------------------------------------------------------------
\* The submission seam: a form of one field, with or without a submit
\* button, whose submission resolves, is rejected or never settles
\* ------------------------------------------------------------------------

SeamForm == <<[name |-> "name", required |-> TRUE]>>

Operations == {"timer", "reject", "never"}

InitSeam ==
  /\ \E b \in BOOLEAN : InitRan([PageDocument EXCEPT !.submit = b])
  /\ operation \in Operations
  /\ innerWidth = PageWidth
  /\ InitForm(SeamForm)

NextSeam ==
  \/ \E target \in 0..Len(fields) : MoveFocus(target)
  \/ \E f \in F : \E v \in Typed(fields[f].name) : InputEvent(f, v)
  \/ \E f \in F : DebounceFire(f)
  \/ Advance
  \/ SubmitEvent
  \/ CompleteSubmission
  \/ FailSubmission

\* Time passes, and a timer that is due fires.
SpecSeam ==
  /\ InitSeam
  /\ [][NextSeam]_vars
  /\ WF_vars(Advance)
  /\ WF_vars(\E f \in F : DebounceFire(f))
  /\ WF_vars(CompleteSubmission)
  /\ WF_vars(FailSubmission)

\* ------------------------------------------------------------------------
\* Properties
\* ------------------------------------------------------------------------

Invalid(f) == ~RunOn(f, group).ok

AllValid == \A f \in F : ~Invalid(f)

\* The first field, in document order, that fails validateField; 0 if none.
FirstInvalid ==
  IF AllValid
    THEN 0
    ELSE CHOOSE f \in F : Invalid(f) /\ \A g \in F : Invalid(g) => f <= g

Unvalidated(f) == group[f] = UnvalidatedGroup

\* C1: a submit event on a form with at least one field that fails
\* validateField starts no submission (nothing new in flight, the button
\* untouched), resets no field value and moves the focus to the first
\* invalid field in document order.
C1_AbortedSubmit ==
  [][(SubmitEvent /\ ~AllValid) =>
       /\ inflight' = inflight
       /\ validSubmits' = validSubmits
       /\ button' = button
       /\ value' = value
       /\ focus' = FirstInvalid]_vars

\* An aborted submit has put the focus on the second field, the first one
\* being valid.
C1_Witness ==
  /\ lastEvent = "aborted"
  /\ FirstInvalid = 2
  /\ focus = 2
  /\ "error" \in group[2].classes
  /\ "success" \in group[1].classes

\* C2: whenever no submission is in flight the submit button is enabled,
\* has no loading class and shows the label it had before the first
\* submission started.
C2_ButtonRestored ==
  inflight = <<>> =>
    button = [disabled |-> FALSE, loading |-> FALSE, label |-> OriginalLabel]

\* C3: every submit event on a form whose fields all pass validation starts
\* one submission; every submission that completes inserts exactly one
\* success banner and resets every field value; no error banner is ever
\* inserted, so the success banners and the submissions in flight add up to
\* the valid submit events.
C3_OneSuccessBanner ==
  [][/\ (SubmitEvent /\ AllValid) =>
          /\ validSubmits' = validSubmits + 1
          /\ Len(inflight') = Len(inflight) + 1
     /\ successShown' + Len(inflight') = validSubmits'
     /\ errorShown' = 0
     /\ Len(inflight') < Len(inflight) =>
          /\ successShown' = successShown + 1
          /\ \A f \in F : value'[f] = DefaultValue]_vars

\* Two valid submit events have both completed: two banners, values reset.
C3_Witness ==
  /\ lastEvent = "success"
  /\ validSubmits = 2
  /\ successShown = 2
  /\ errorShown = 0
  /\ inflight = <<>>
  /\ \A f \in F : value[f] = DefaultValue

\* C4: after a submission succeeds every field is unvalidated (no error
\* class, no success class, no aria-invalid, no error text) for as long as
\* no blur, input or submit event has occurred since that success.
C4_StaysUnvalidated ==
  lastEvent = "success" => \A f \in F : Unvalidated(f)

\* C5 as stated: error class and aria-invalid="true" exactly when the last
\* validation run on the field returned invalid, success class and
\* aria-invalid="false" exactly when it returned valid, never both classes.
C5_AgreesWithLastRun ==
  \A f \in F :
    /\ "error" \in group[f].classes <=> lastRun[f] = "invalid"
    /\ group[f].aria = "true" <=> lastRun[f] = "invalid"
    /\ "success" \in group[f].classes <=> lastRun[f] = "valid"
    /\ group[f].aria = "false" <=> lastRun[f] = "valid"
    /\ ~({"error", "success"} \subseteq group[f].classes)

\* C5 amended: a field never validated, or cleared by a successful
\* submission since its last validation run, has neither class and no
\* aria-invalid; any other field has the error class and
\* aria-invalid="true" exactly when its last run returned invalid, the
\* success class and aria-invalid="false" exactly when it returned valid,
\* and never both classes.
C5_AgreesUnlessCleared ==
  \A f \in F :
    IF cleared[f] \/ lastRun[f] = "none"
      THEN group[f].classes = {} /\ group[f].aria = "absent"
      ELSE /\ "error" \in group[f].classes <=> lastRun[f] = "invalid"
           /\ group[f].aria = "true" <=> lastRun[f] = "invalid"
           /\ "success" \in group[f].classes <=> lastRun[f] = "valid"
           /\ group[f].aria = "false" <=> lastRun[f] = "valid"
           /\ ~({"error", "success"} \subseteq group[f].classes)

\* After a success one field has been validated again and shows an error,
\* while another, validated before the success, is still cleared.
C5_Witness ==
  \E f \in F : \E g \in F :
    /\ cleared[f]
    /\ lastRun[f] = "valid"
    /\ ~cleared[g]
    /\ lastRun[g] = "invalid"
    /\ group[g].aria = "true"

RequiredErrorGroup ==
  [classes |-> {"error"}, aria |-> "true", errors |-> <<RequiredMessage>>]

\* C6: for a required field of any name whose value is empty or whitespace
\* only, validateField returns false and shows "This field is required",
\* never the registry's message; and that is what the field displays once
\* its pending validation has run.
C6_RequiredEmpty ==
  \A f \in F :
    (fields[f].required /\ Trim(value[f]) = <<>>) =>
      /\ ~RunOn(f, group).ok
      /\ RunOn(f, group).message = RequiredMessage
      /\ RunOn(f, group).group = RequiredErrorGroup
      /\ (timers[f] = <<>> /\ lastRun[f] # "none") =>
           (lastRun[f] = "invalid" /\ group[f] = RequiredErrorGroup)

\* A required field with a registry entry holds a whitespace-only value and
\* displays the required message after its debounced validation.
C6_Witness ==
  \E f \in F :
    /\ fields[f].required
    /\ fields[f].name \in RegistryNames
    /\ value[f] = <<" ", "\t">>
    /\ timers[f] = <<>>
    /\ focus = 0
    /\ group[f] = RequiredErrorGroup

\* C7: every field group holds at most one error text element, and holds
\* one exactly when the field is displayed as invalid (error class,
\* aria-invalid="true").
C7_SingleErrorNode ==
  \A f \in F :
    /\ Len(group[f].errors) <= 1
    /\ Len(group[f].errors) = 1 <=> "error" \in group[f].classes
    /\ Len(group[f].errors) = 1 <=> group[f].aria = "true"

\* After an aborted submit one group holds its one error text while a field
\* that validated as valid holds none.
C7_Witness ==
  \E f \in F : \E g \in F :
    /\ lastEvent = "aborted"
    /\ Len(group[f].errors) = 1
    /\ lastRun[g] = "valid"
    /\ "success" \in group[g].classes
    /\ group[g].errors = <<>>

\* C8: a timer of a field's debounce closure fires, and validates the field,
\* only when FORM_VALIDATION_DELAY ms have passed since the last input event
\* on that field, and leaves no timer of that field pending (one run for the
\* burst); an input event on a field leaves the timers of every other field
\* as they were.
C8_Debounce ==
  [][\A f \in F :
       /\ Len(timers'[f]) < Len(timers[f]) =>
            /\ sinceInput[f] >= FORM_VALIDATION_DELAY
            /\ timers'[f] = <<>>
            /\ lastRun'[f] = Outcome(RunOn(f, group))
       /\ InputEvent(f, value'[f]) =>
            /\ timers'[f] = <<FORM_VALIDATION_DELAY>>
            /\ \A g \in F \ {f} : timers'[g] = timers[g]]_vars

\* The first field's debounced validation has run while the second field's
\* timer, started later, is still pending.
C8_Witness ==
  /\ lastEvent = "field"
  /\ focus = 0
  /\ validSubmits = 0
  /\ timers[1] = <<>>
  /\ lastRun[1] # "none"
  /\ sinceInput[1] = FORM_VALIDATION_DELAY
  /\ timers[2] # <<>>
  /\ timers[2][1] > 0
  /\ lastRun[2] = "none"

\* C9 as stated: when an init has thrown, the exception was caught and every
\* other module is initialised.
C9_OthersInitialised ==
  (phase = "ran" /\ caught # <<>>) =>
    /\ uncaught = <<>>
    /\ \A m \in Modules :
         \/ \E i \in 1..Len(initialised) : initialised[i] = m
         \/ \E i \in 1..Len(caught) : caught[i] = m

\* C9 amended: when an init has thrown, the exception was caught (one
\* failure, logged once, nothing uncaught), the modules called before it are
\* initialised and the modules after it are not.
C9_EarlierInitialised ==
  (phase = "ran" /\ caught # <<>>) =>
    /\ uncaught = <<>>
    /\ Len(caught) = 1
    /\ \E k \in 1..Len(InitOrder) :
         /\ InitOrder[k] = caught[1]
         /\ initialised = SubSeq(InitOrder, 1, k - 1)

\* LazyLoading's init has thrown: the two modules before it are initialised.
C9_Witness ==
  /\ phase = "ran"
  /\ caught = <<"LazyLoading">>
  /\ initialised = <<"MobileNavigation", "SmoothScroll">>

FixedOrder ==
  <<"MobileNavigation", "SmoothScroll", "LazyLoading", "FormValidation",
    "ScrollAnimations">>

\* C10: when the startup sequence has run, the modules initialised are the
\* first k of MobileNavigation, SmoothScroll, LazyLoading, FormValidation,
\* ScrollAnimations, in that order: all five if no init threw, else those
\* before the module that threw, whose exception did not leave
\* runInitialization; and nothing is initialised later on.
C10_FixedOrder ==
  [][/\ phase' = "ran" =>
          /\ uncaught' = <<>>
          /\ \E k \in 0..Len(FixedOrder) :
               /\ initialised' = SubSeq(FixedOrder, 1, k)
               /\ IF k = Len(FixedOrder)
                    THEN caught' = <<>>
                    ELSE caught' = <<FixedOrder[k + 1]>>
     /\ phase = "ran" =>
          /\ phase' = "ran"
          /\ initialised' = initialised
          /\ caught' = caught]_vars

\* FormValidation's init has thrown after the first three modules were
\* initialised, and the page has been left alone since.
C10_Witness ==
  /\ phase = "ran"
  /\ readyState = "interactive"
  /\ caught = <<"FormValidation">>
  /\ initialised = <<"MobileNavigation", "SmoothScroll", "LazyLoading">>
  /\ uncaught = <<>>

\* C11: no failure of the submission sequence escapes submitForm, in a form
\* without a submit button either: no promise that submitForm returns is
\* rejected, and a submission that has failed has shown the error banner.
C11_FailuresCaught ==
  /\ rejections = 0
  /\ lastEvent = "failure" => (errorShown > 0 /\ banner = FailedMessage)

\* The range of lengths the registry's pattern of a text field is written for.
LengthRange(fieldName) ==
  IF fieldName = "subject" THEN 3..100 ELSE 10..1000

\* C12: for a subject or message field with a non-empty trimmed value,
\* validateField returns true exactly when the length of that value is in
\* the field's range (3 to 100, 10 to 1000), whatever its characters, line
\* breaks included, and shows the registry's message when it is not.
C12_LengthOnly ==
  \A f \in F :
    (fields[f].name \in TextNames /\ Trim(value[f]) # <<>>) =>
      IF Len(Trim(value[f])) \in LengthRange(fields[f].name)
        THEN RunOn(f, group).ok
        ELSE /\ ~RunOn(f, group).ok
             /\ RunOn(f, group).message = ValidatorMessage(fields[f].name)

\* C13: however many times the script has been evaluated, the document holds
\* at most one style block with id mobile-nav-styles and at most one with id
\* scroll-animation-styles.
C13_SingleStyleBlocks ==
  /\ doc.mobileStyles <= 1
  /\ doc.scrollStyles <= 1

\* The script has run a second time in a document whose header has no
\* .header-container: the toggle of the first run is not in the document, so
\* the second run has created another and called addMobileStyles again.
C13_Witness ==
  /\ loads = 2
  /\ phase = "ran"
  /\ initialised = InitOrder
  /\ doc.header
  /\ ~doc.container
  /\ ~doc.toggle
  /\ doc.mobileStyles = 1
  /\ doc.scrollStyles = 1

\* The elements a module's init needs are not all in the document.
AnchorsAbsent(m) ==
  CASE m = "MobileNavigation" -> ~doc.header \/ ~doc.nav
    [] m = "FormValidation" -> ~doc.form
    [] OTHER -> FALSE

\* C14: when the startup sequence has run, a module whose anchors are absent
\* and whose init was called (no earlier init threw), nothing outside the
\* script making it fail, has returned from init without throwing, has added
\* no listener, and the init of the module after it was called.
C14_AbsentAnchors ==
  phase = "ran" =>
    \A k \in 1..Len(InitOrder) :
      (/\ AnchorsAbsent(InitOrder[k])
       /\ InitOrder[k] \notin faults
       /\ Len(initialised) >= k - 1) =>
        /\ Len(initialised) >= k
        /\ initialised[k] = InitOrder[k]
        /\ caught # <<InitOrder[k]>>
        /\ listeners[InitOrder[k]] = {}
        /\ k < Len(InitOrder) =>
             \/ Len(initialised) > k
             \/ caught = <<InitOrder[k + 1]>>

\* In a document with neither header nor contact form all five inits have
\* returned, those of MobileNavigation and FormValidation without adding a
\* listener.
C14_Witness ==
  /\ phase = "ran"
  /\ ~doc.header
  /\ ~doc.form
  /\ doc.nav
  /\ initialised = InitOrder
  /\ caught = <<>>
  /\ listeners["MobileNavigation"] = {}
  /\ listeners["FormValidation"] = {}
  /\ listeners["SmoothScroll"] # {}

\* C15: whenever a submission is in flight the submit button is disabled,
\* has the loading class and shows "Sending...".
C15_DisabledInFlight ==
  inflight # <<>> =>
    button = [disabled |-> TRUE, loading |-> TRUE, label |-> SendingLabel]

\* C16: the step in which a submission fails inserts one error banner, with
\* the fixed message, and no success banner, resets no field value and
\* leaves every field group, and the result of every field's last
\* validation run, as it was.
C16_FailureLeavesForm ==
  [][(operation = "reject" /\ Len(inflight') < Len(inflight)) =>
       /\ errorShown' = errorShown + 1
       /\ banner' = FailedMessage
       /\ successShown' = successShown
       /\ value' = value
       /\ group' = group
       /\ lastRun' = lastRun]_vars

\* A submission has failed: one error banner, no success banner, the value
\* still in the field, which still shows the success state of the submit's
\* validation run.
C16_Witness ==
  /\ lastEvent = "failure"
  /\ errorShown = 1
  /\ successShown = 0
  /\ banner = FailedMessage
  /\ inflight = <<>>
  /\ \A f \in F :
       /\ value[f] # DefaultValue
       /\ lastRun[f] = "valid"
       /\ group[f] = showFieldSuccess(UnvalidatedGroup)

\* What validateField shows for field f's value, in a group cleared first.
Shown(f) == RunOn(f, group).group

\* C17: a submit event runs validateField on every field: after it every
\* field that fails validation shows its error state and every field that
\* passes shows its success state, all at the same time, and a submission
\* starts exactly when every field passes.
C17_ValidatesEveryField ==
  [][SubmitEvent =>
       /\ \A f \in F :
            /\ group'[f] = Shown(f)
            /\ lastRun'[f] = Outcome(RunOn(f, group))
            /\ Invalid(f) <=> "error" \in group'[f].classes
            /\ ~Invalid(f) <=> "success" \in group'[f].classes
       /\ AllValid <=> Len(inflight') = Len(inflight) + 1
       /\ AllValid <=> validSubmits' = validSubmits + 1]_vars

\* An aborted submit has left both fields showing an error, each its own.
C17_Witness ==
  /\ lastEvent = "aborted"
  /\ \A f \in F : Invalid(f) /\ group[f] = Shown(f)
  /\ group[1].errors = <<RequiredMessage>>
  /\ group[2].errors = <<ValidatorMessage("phone")>>
  /\ focus = 1

\* C18: validateField returns true for a field without the required
\* attribute whose trimmed value is empty, whatever the field's name, and
\* for a non-empty value of a field whose name is not one of the registry's
\* five.
C18_RequiredFromAttribute ==
  \A f \in F :
    /\ (~fields[f].required /\ Trim(value[f]) = <<>>) =>
         (RunOn(f, group).ok /\ ~RunOn(f, group).threw)
    /\ (fields[f].name \notin RegistryNames /\ Trim(value[f]) # <<>>) =>
         (RunOn(f, group).ok /\ ~RunOn(f, group).threw)

\* C19: with the script's own promise, resolved by a timer, every
\* submission in flight completes and the submit button is enabled again;
\* with a promise that never settles, the button, once disabled, is disabled
\* in every later state.
C19_CompletesOrStaysDisabled ==
  /\ (operation = "timer" /\ inflight # <<>>) ~>
       (inflight = <<>> /\ ~button.disabled)
  /\ [][(operation = "never" /\ button.disabled) => button'.disabled]_vars

\* With a promise that never settles the button is still disabled, and the
\* submission still in flight, after the field was edited and validated
\* again long after the submit.
C19_Witness ==
  /\ operation = "never"
  /\ lastEvent = "field"
  /\ Len(inflight) = 1
  /\ button.disabled
  /\ \A f \in F : timers[f] = <<>> /\ lastRun[f] = "invalid"

\* C20: a field that shows the valid or the invalid state and has no
\* debounced validation pending shows what validateField gives for its
\* current value.
C20_DisplayedIsCurrent ==
  \A f \in F :
    (timers[f] = <<>> /\ ~Unvalidated(f)) => group[f] = Shown(f)

\* A field shows a stale state while its debounced validation is pending,
\* next to a field that was validated after its last edit.
C20_Witness ==
  \E f \in F : \E g \in F :
    /\ timers[f] # <<>>
    /\ ~Unvalidated(f)
    /\ group[f] # Shown(f)
    /\ timers[g] = <<>>
    /\ value[g] # DefaultValue
    /\ ~Unvalidated(g)
    /\ group[g] = Shown(g)

\* C21: once MobileNavigation listens, isOpen is true exactly when the body
\* and the nav menu both have the nav-open class and the toggle's
\* aria-expanded is "true", and false exactly when neither has the class
\* and aria-expanded is "false".
C21_FlagAgreesWithDocument ==
  NavListening =>
    /\ nav.isOpen <=> (nav.body /\ nav.menu /\ nav.expanded = "true")
    /\ ~nav.isOpen <=> (~nav.body /\ ~nav.menu /\ nav.expanded = "false")

\* C22: the menu goes from closed to open only in a click on the toggle; a
\* click on the toggle flips isOpen, and the menu's class with it, once (the
\* document's click listener, which the same click reaches, leaves what the
\* toggle's listener did); a click outside the menu and the toggle on an
\* open menu closes it.
C22_ToggleClickFlipsOnce ==
  [][/\ (~nav.isOpen /\ nav'.isOpen) => navEvent' = "toggle"
     /\ Click("toggle") =>
          /\ nav'.isOpen = ~nav.isOpen
          /\ nav'.menu = ~nav.isOpen
          /\ nav'.body = ~nav.isOpen
     /\ (Click("outside") /\ nav.isOpen) =>
          /\ ~nav'.isOpen
          /\ ~nav'.menu
          /\ ~nav'.body]_vars

\* A click on the toggle has opened the menu, on a mobile width, and the
\* menu is still open.
C22_Witness ==
  /\ navEvent = "toggle"
  /\ innerWidth < MOBILE_BREAKPOINT
  /\ nav.isOpen
  /\ nav.menu
  /\ nav.body
  /\ nav.expanded = "true"

====
